---- MODULE Spec2Model ----
(***************************************************************************)
(* The AW11 decentralized multi-authority CP-ABE scheme of                 *)
(* src/schemes/aw11/mod.rs: setup, authgen, keygen, add_attribute,         *)
(* encrypt, decrypt and find_pk_attr.                                      *)
(*                                                                         *)
(* Group elements are written by their discrete logarithm: an element of   *)
(* G1, G2 or Gt is a residue modulo Order, the group law is addition of    *)
(* residues, exponentiation by a scalar is multiplication and the pairing  *)
(* e(x, y) is the product x * y.  Every identity used below holds in any   *)
(* ring Z_n, so the group order is only a bound of the model.              *)
(*                                                                         *)
(* rand::thread_rng() is a seeded generator: the seed is the random input  *)
(* (drawn in Init), every Fr::random / G1::random / G2::random reads the   *)
(* generator state and advances it.                                        *)
(***************************************************************************)
EXTENDS Integers, Sequences, FiniteSets, TLC

VARIABLES gk, auths, sk, prov, ct, enc, result, rng

vars == <<gk, auths, sk, prov, ct, enc, result, rng>>

(***************************************************************************)
(* Bounds of the model.                                                    *)
(***************************************************************************)
Order == 5
MaxSeed == 3
MaxAuth == 2
MaxKeyLen == 3

(***************************************************************************)
(* bn: scalars, groups and the pairing.                                    *)
(***************************************************************************)
FrZero == 0 % Order

FrOne == 1 % Order

FrSub(a, b) == (a - b) % Order

\* x * k for a group element x of G1 or G2 and a scalar k
GMul(x, k) == (x * k) % Order

\* x + y in G1 or G2
GAdd(x, y) == (x + y) % Order

pairing(x, y) == (x * y) % Order

GtOne == 0 % Order

\* x * y in Gt
GtMul(x, y) == (x + y) % Order

\* x.pow(k) in Gt
GtPow(x, k) == (x * k) % Order

\* x.inverse() in Gt
GtInverse(x) == (0 - x) % Order

(***************************************************************************)
(* rand: the thread-local generator.                                       *)
(***************************************************************************)
Seeds == 0 .. MaxSeed

NextRng(r) == (r * 17 + 7) % 61

\* Fr::random
FrRandom(r) == r % Order

\* G1::random, G2::random: a generator of the group (not the identity)
GRandom(r) == 1 + (r % (Order - 1))

(***************************************************************************)
(* Strings.                                                                *)
(***************************************************************************)
to_uppercase(s) ==
    CASE s = "a" -> "A"
      [] s = "b" -> "B"
      [] s = "h" -> "H"
      [] s = "i" -> "I"
      [] OTHER -> s

is_empty(s) == s = ""

(***************************************************************************)
(* Option: <<>> is None, <<x>> is Some(x).                                 *)
(***************************************************************************)
None == <<>>

Some(x) == <<x>>

is_some(o) == o # <<>>

unwrap(o) == o[1]

(***************************************************************************)
(* Policies: the JSON policy string is written as the tree it denotes;     *)
(* Malformed stands for every string the policy parser rejects.            *)
(***************************************************************************)
Att(n) == [t |-> "ATT", n |-> n]

And(l, r) == [t |-> "AND", l |-> l, r |-> r]

Or(l, r) == [t |-> "OR", l |-> l, r |-> r]

Malformed == [t |-> "BAD"]

RECURSIVE WellFormed(_)
WellFormed(p) ==
    CASE p.t = "ATT" -> TRUE
      [] p.t \in {"AND", "OR"} -> WellFormed(p.l) /\ WellFormed(p.r)
      [] OTHER -> FALSE

\* the attribute leaves of a policy, left to right, as written
RECURSIVE Leaves(_)
Leaves(p) ==
    CASE p.t = "ATT" -> <<p.n>>
      [] p.t \in {"AND", "OR"} -> Leaves(p.l) \o Leaves(p.r)
      [] OTHER -> <<>>

Range(s) == {s[i] : i \in 1 .. Len(s)}

\* AbePolicy::from_string: the span program has one row per leaf
from_string(p) == IF WellFormed(p) THEN Some(Leaves(p)) ELSE None

(***************************************************************************)
(* utils::secretsharing, utils::hash, utils::aes (not part of the sources  *)
(* at hand; written from the design document).                             *)
(***************************************************************************)
\* gen_shares_str: an AND node gives a random share to its first child and
\* the rest of its own share to the second, an OR node hands its share to
\* both children, a leaf records (name as written, share).  r is the state
\* of the generator; the result carries the state after the draws.
RECURSIVE gen_shares_json(_, _, _)
gen_shares_json(secret, p, r) ==
    CASE p.t = "ATT" -> [shares |-> << <<p.n, secret>> >>, rng |-> r]
      [] p.t = "AND" ->
            LET x == FrRandom(r)
                L == gen_shares_json(x, p.l, NextRng(r))
                R == gen_shares_json(FrSub(secret, x), p.r, L.rng)
            IN  [shares |-> L.shares \o R.shares, rng |-> R.rng]
      [] p.t = "OR" ->
            LET L == gen_shares_json(secret, p.l, r)
                R == gen_shares_json(secret, p.r, L.rng)
            IN  [shares |-> L.shares \o R.shares, rng |-> R.rng]
      [] OTHER -> [shares |-> <<>>, rng |-> r]

gen_shares_str(secret, p, r) ==
    IF WellFormed(p) THEN Some(gen_shares_json(secret, p, r)) ELSE None

\* traverse_str: does the list of held attribute names satisfy the policy
\* (names matched case-insensitively)
RECURSIVE traverse_str(_, _)
traverse_str(attrs, p) ==
    CASE p.t = "ATT" ->
            \E i \in 1 .. Len(attrs) : to_uppercase(attrs[i]) = to_uppercase(p.n)
      [] p.t = "AND" -> traverse_str(attrs, p.l) /\ traverse_str(attrs, p.r)
      [] p.t = "OR" -> traverse_str(attrs, p.l) \/ traverse_str(attrs, p.r)
      [] OTHER -> FALSE

\* the union of two lists of names, in order of first occurrence
RECURSIVE Union(_, _)
Union(a, b) ==
    IF b = <<>> THEN a
    ELSE IF Head(b) \in Range(a) THEN Union(a, Tail(b))
    ELSE Union(Append(a, Head(b)), Tail(b))

\* the minimal list of (normalized) leaves that proves satisfaction: AND
\* unions its children's lists, OR takes the first satisfied child's list
RECURSIVE calc_pruned_json(_, _)
calc_pruned_json(attrs, p) ==
    CASE p.t = "ATT" ->
            IF traverse_str(attrs, p) THEN <<TRUE, <<to_uppercase(p.n)>> >>
            ELSE <<FALSE, <<>> >>
      [] p.t = "AND" ->
            LET L == calc_pruned_json(attrs, p.l)
                R == calc_pruned_json(attrs, p.r)
            IN  IF L[1] /\ R[1] THEN <<TRUE, Union(L[2], R[2])>>
                ELSE <<FALSE, <<>> >>
      [] p.t = "OR" ->
            LET L == calc_pruned_json(attrs, p.l)
                R == calc_pruned_json(attrs, p.r)
            IN  IF L[1] THEN L ELSE IF R[1] THEN R ELSE <<FALSE, <<>> >>
      [] OTHER -> <<FALSE, <<>> >>

calc_pruned_str(attrs, p) ==
    IF WellFormed(p) THEN Some(calc_pruned_json(attrs, p)) ELSE None

\* calc_coefficients_str: one (normalized name, coefficient) per leaf; with
\* additive AND shares and replicated OR shares every coefficient is one
calc_coefficients_str(p) ==
    IF WellFormed(p)
    THEN Some([i \in 1 .. Len(Leaves(p)) |-> <<to_uppercase(Leaves(p)[i]), FrOne>>])
    ELSE None

\* the scalar a gid hashes to
HashFr(gid) ==
    CASE gid = "bob" -> 2 % Order
      [] gid = "eve" -> 3 % Order
      [] OTHER -> 1 % Order

\* blake2b_hash_g1: a deterministic element of G1 from a generator and a string
blake2b_hash_g1(g, data) == GMul(g, HashFr(data))

\* the key stream of the symmetric cipher under a session key
KeyStream(key, i) == (7 * key + i) % 256

\* the authentication tag of a body under a session key (an ideal MAC: the
\* third entry is zero in every genuine tag)
Mac(key, body) == <<key, body, 0>>

\* encrypt_symmetric: seal(key, plaintext)
encrypt_symmetric(key, plaintext) ==
    LET body == [i \in 1 .. Len(plaintext) |-> (plaintext[i] + KeyStream(key, i)) % 256]
    IN  Some([body |-> body, tag |-> Mac(key, body)])

\* decrypt_symmetric: open(key, bytes), None on an authentication failure
decrypt_symmetric(key, bytes) ==
    IF bytes.tag = Mac(key, bytes.body)
    THEN Some([i \in 1 .. Len(bytes.body) |-> (bytes.body[i] - KeyStream(key, i)) % 256])
    ELSE None

(***************************************************************************)
(* schemes::aw11                                                           *)
(***************************************************************************)
\* .filter(|_attr| _attr.0 == name).nth(0) over a vector of tuples
filter_nth0(v, name) ==
    LET hit == {i \in 1 .. Len(v) : v[i][1] = name}
    IN  IF hit = {} THEN None
        ELSE Some(v[CHOOSE i \in hit : \A j \in hit : i <= j])

\* setup: two random generators
setup(r) ==
    [gk |-> [g1 |-> GRandom(r), g2 |-> GRandom(NextRng(r))],
     rng |-> NextRng(NextRng(r))]

\* authgen_loop with the two scalars of the public entry exchanged
RECURSIVE authgen_loop_swapped(_, _, _, _, _)
authgen_loop_swapped(g, attributes, r, pkv, skv) ==
    IF attributes = <<>> THEN [pk |-> pkv, msk |-> skv, rng |-> r]
    ELSE LET attr == Head(attributes)
             alpha_i == FrRandom(r)
             y_i == FrRandom(NextRng(r))
         IN  authgen_loop_swapped(g, Tail(attributes), NextRng(NextRng(r)),
                 Append(pkv, <<to_uppercase(attr),
                               GtPow(pairing(g.g1, g.g2), y_i),
                               GMul(g.g2, alpha_i)>>),
                 Append(skv, <<to_uppercase(attr), alpha_i, y_i>>))

\* the loop of authgen: one master entry and one public entry per attribute
RECURSIVE authgen_loop(_, _, _, _, _)
authgen_loop(g, attributes, r, pkv, skv) ==
    IF attributes = <<>> THEN [pk |-> pkv, msk |-> skv, rng |-> r]
    ELSE LET attr == Head(attributes)
             alpha_i == FrRandom(r)
             y_i == FrRandom(NextRng(r))
         IN  authgen_loop(g, Tail(attributes), NextRng(NextRng(r)),
                 Append(pkv, <<to_uppercase(attr),
                               GtPow(pairing(g.g1, g.g2), alpha_i),
                               GMul(g.g2, y_i)>>),
                 Append(skv, <<to_uppercase(attr), alpha_i, y_i>>))

\* authgen: None on an empty attribute list, else Some of pk, msk (and the
\* generator state after the draws)
authgen(g, attributes, r) ==
    IF attributes = <<>> THEN None
    ELSE Some(authgen_loop(g, attributes, r, <<>>, <<>>))

\* add_attribute whose component leaves out the hash of the gid
add_attribute_unbound(g, msk, attribute, key) ==
    IF is_empty(attribute) \/ is_empty(key.gid) THEN [status |-> "noop", sk |-> key]
    ELSE LET auth_attribute == filter_nth0(msk, attribute)
         IN  IF ~is_some(auth_attribute) THEN [status |-> "panic", sk |-> key]
             ELSE LET e == unwrap(auth_attribute)
                  IN  [status |-> "ok",
                       sk |-> [gid |-> key.gid,
                               attr |-> Append(key.attr,
                                   <<to_uppercase(e[1]),
                                     GAdd(GMul(g.g1, e[2]), GMul(g.g1, e[3]))>>)]]

\* add_attribute that skips an attribute the key already holds
add_attribute_once(g, msk, attribute, key) ==
    IF is_empty(attribute) \/ is_empty(key.gid) THEN [status |-> "noop", sk |-> key]
    ELSE LET h_g1 == blake2b_hash_g1(g.g1, key.gid)
             auth_attribute == filter_nth0(msk, attribute)
         IN  IF ~is_some(auth_attribute) THEN [status |-> "panic", sk |-> key]
             ELSE LET e == unwrap(auth_attribute)
                  IN  IF is_some(filter_nth0(key.attr, to_uppercase(e[1])))
                      THEN [status |-> "ok", sk |-> key]
                      ELSE [status |-> "ok",
                            sk |-> [gid |-> key.gid,
                                    attr |-> Append(key.attr,
                                        <<to_uppercase(e[1]),
                                          GAdd(GMul(g.g1, e[2]), GMul(h_g1, e[3]))>>)]]

\* add_attribute: status "noop" for the silent return, "panic" for the
\* unwrap of a failed lookup, "ok" with the grown key otherwise
add_attribute(g, msk, attribute, key) ==
    IF is_empty(attribute) \/ is_empty(key.gid) THEN [status |-> "noop", sk |-> key]
    ELSE LET h_g1 == blake2b_hash_g1(g.g1, key.gid)
             auth_attribute == filter_nth0(msk, attribute)
         IN  IF ~is_some(auth_attribute) THEN [status |-> "panic", sk |-> key]
             ELSE LET e == unwrap(auth_attribute)
                  IN  [status |-> "ok",
                       sk |-> [gid |-> key.gid,
                               attr |-> Append(key.attr,
                                   <<to_uppercase(e[1]),
                                     GAdd(GMul(g.g1, e[2]), GMul(h_g1, e[3]))>>)]]

\* the loop of keygen
RECURSIVE keygen_loop(_, _, _, _)
keygen_loop(g, msk, attributes, key) ==
    IF attributes = <<>> THEN [status |-> "ok", sk |-> key]
    ELSE LET step == add_attribute(g, msk, Head(attributes), key)
         IN  IF step.status = "panic" THEN step
             ELSE keygen_loop(g, msk, Tail(attributes), step.sk)

\* keygen: status "none" for the None return
keygen(g, msk, name, attributes) ==
    IF attributes = <<>> \/ is_empty(name)
    THEN [status |-> "none", sk |-> [gid |-> name, attr |-> <<>>]]
    ELSE keygen_loop(g, msk, attributes, [gid |-> name, attr |-> <<>>])

\* find_pk_attr: the first entry of that name in the first key that has one
RECURSIVE find_pk_attr(_, _)
find_pk_attr(pks, attr) ==
    IF pks = <<>> THEN None
    ELSE LET pk_attr == filter_nth0(Head(pks), attr)
         IN  IF is_some(pk_attr) THEN pk_attr ELSE find_pk_attr(Tail(pks), attr)

\* the loop of encrypt over the shares: None when a lookup's unwrap panics
RECURSIVE encrypt_loop(_, _, _, _, _, _, _)
encrypt_loop(g, pks, s_shares, w_shares, i, r, c) ==
    IF i > Len(s_shares) THEN Some(c)
    ELSE LET attr_name == s_shares[i][1]
             attr_share == s_shares[i][2]
             r_x == FrRandom(r)
             pk_attr == find_pk_attr(pks, to_uppercase(attr_name))
         IN  IF ~is_some(pk_attr) THEN None
             ELSE encrypt_loop(g, pks, s_shares, w_shares, i + 1, NextRng(r),
                     Append(c, <<to_uppercase(attr_name),
                                 GtMul(GtPow(pairing(g.g1, g.g2), attr_share),
                                       GtPow(unwrap(pk_attr)[2], r_x)),
                                 GMul(g.g2, r_x),
                                 GAdd(GMul(unwrap(pk_attr)[3], r_x),
                                      GMul(g.g2, w_shares[i][2]))>>))

\* encrypt: status "panic" when the policy does not parse or a leaf is not
\* covered; msg is the sealed session key (kept for the properties only)
encrypt(g, pks, policy, plaintext, r) ==
    IF ~is_some(from_string(policy)) THEN [status |-> "panic"]
    ELSE LET s == FrRandom(r)
             S == unwrap(gen_shares_str(s, policy, NextRng(r)))
             W == unwrap(gen_shares_str(FrZero, policy, S.rng))
             msg == pairing(GRandom(W.rng), GRandom(NextRng(W.rng)))
             r5 == NextRng(NextRng(W.rng))
             c_0 == GtMul(msg, GtPow(pairing(g.g1, g.g2), s))
             c == encrypt_loop(g, pks, S.shares, W.shares, 1, r5, <<>>)
         IN  IF ~is_some(c) THEN [status |-> "panic"]
             ELSE [status |-> "ok",
                   ct |-> [policy |-> policy, c_0 |-> c_0, c |-> unwrap(c),
                           ct |-> unwrap(encrypt_symmetric(msg, plaintext))],
                   msg |-> msg,
                   rng |-> r5]

\* the names of the components of a key
str_attr(key) == [i \in 1 .. Len(key.attr) |-> key.attr[i][1]]

\* decrypt_loop whose denominator pairs the hash instead of the component
RECURSIVE decrypt_loop_hash(_, _, _, _, _, _)
decrypt_loop_hash(h_g1, key, c, list, coeffs, egg_s) ==
    IF list = <<>> THEN Some(egg_s)
    ELSE LET current == Head(list)
             sk_attr == filter_nth0(key.attr, current)
             ct_attr == filter_nth0(c.c, current)
             coeff == filter_nth0(coeffs, current)
         IN  IF ~is_some(sk_attr) \/ ~is_some(ct_attr) \/ ~is_some(coeff) THEN None
             ELSE LET num == GtMul(unwrap(ct_attr)[2], pairing(h_g1, unwrap(ct_attr)[4]))
                      dem == pairing(h_g1, unwrap(ct_attr)[3])
                  IN  decrypt_loop_hash(h_g1, key, c, Tail(list), coeffs,
                          GtMul(egg_s, GtPow(GtMul(num, GtInverse(dem)), unwrap(coeff)[2])))

\* the loop of decrypt over the pruned list: None when an unwrap panics
RECURSIVE decrypt_loop(_, _, _, _, _, _)
decrypt_loop(h_g1, key, c, list, coeffs, egg_s) ==
    IF list = <<>> THEN Some(egg_s)
    ELSE LET current == Head(list)
             sk_attr == filter_nth0(key.attr, current)
             ct_attr == filter_nth0(c.c, current)
             coeff == filter_nth0(coeffs, current)
         IN  IF ~is_some(sk_attr) \/ ~is_some(ct_attr) \/ ~is_some(coeff) THEN None
             ELSE LET num == GtMul(unwrap(ct_attr)[2], pairing(h_g1, unwrap(ct_attr)[4]))
                      dem == pairing(unwrap(sk_attr)[2], unwrap(ct_attr)[3])
                  IN  decrypt_loop(h_g1, key, c, Tail(list), coeffs,
                          GtMul(egg_s, GtPow(GtMul(num, GtInverse(dem)), unwrap(coeff)[2])))

\* the session key decrypt recovers (None when it returns or panics before)
recover(g, key, c) ==
    IF ~traverse_str(str_attr(key), c.policy) THEN None
    ELSE LET pruned == calc_pruned_str(str_attr(key), c.policy)
             coeffs == calc_coefficients_str(c.policy)
         IN  IF ~is_some(pruned) \/ ~is_some(coeffs) THEN None
             ELSE IF ~unwrap(pruned)[1] THEN None
             ELSE LET egg_s == decrypt_loop(blake2b_hash_g1(g.g1, key.gid), key, c,
                                   unwrap(pruned)[2], unwrap(coeffs), GtOne)
                  IN  IF ~is_some(egg_s) THEN None
                      ELSE Some(GtMul(c.c_0, GtInverse(unwrap(egg_s))))

\* decrypt that evaluates the policy over the names of the ciphertext's rows
decrypt_row_names(g, key, c) ==
    LET names == [i \in 1 .. Len(c.c) |-> c.c[i][1]]
    IN  IF ~traverse_str(names, c.policy) THEN [status |-> "none", out |-> <<>>]
        ELSE LET pruned == calc_pruned_str(names, c.policy)
             IN  IF ~is_some(pruned) THEN [status |-> "none", out |-> <<>>]
                 ELSE IF ~is_some(calc_coefficients_str(c.policy))
                      THEN [status |-> "panic", out |-> <<>>]
                 ELSE IF ~unwrap(pruned)[1] THEN [status |-> "none", out |-> <<>>]
                 ELSE LET egg_s == decrypt_loop(blake2b_hash_g1(g.g1, key.gid), key, c,
                                       unwrap(pruned)[2],
                                       unwrap(calc_coefficients_str(c.policy)), GtOne)
                      IN  IF ~is_some(egg_s) THEN [status |-> "panic", out |-> <<>>]
                          ELSE LET pt == decrypt_symmetric(
                                       GtMul(c.c_0, GtInverse(unwrap(egg_s))), c.ct)
                               IN  IF is_some(pt)
                                   THEN [status |-> "ok", out |-> unwrap(pt)]
                                   ELSE [status |-> "none", out |-> <<>>]

\* decrypt: status "none" for None, "panic" for a failed unwrap, "ok" with
\* the plaintext
decrypt(g, key, c) ==
    IF ~traverse_str(str_attr(key), c.policy) THEN [status |-> "none", out |-> <<>>]
    ELSE LET pruned == calc_pruned_str(str_attr(key), c.policy)
         IN  IF ~is_some(pruned) THEN [status |-> "none", out |-> <<>>]
             ELSE IF ~is_some(calc_coefficients_str(c.policy))
                  THEN [status |-> "panic", out |-> <<>>]
             ELSE IF ~unwrap(pruned)[1] THEN [status |-> "none", out |-> <<>>]
             ELSE LET msg == recover(g, key, c)
                  IN  IF ~is_some(msg) THEN [status |-> "panic", out |-> <<>>]
                      ELSE LET pt == decrypt_symmetric(unwrap(msg), c.ct)
                           IN  IF is_some(pt) THEN [status |-> "ok", out |-> unwrap(pt)]
                               ELSE [status |-> "none", out |-> <<>>]

(***************************************************************************)
(* The inputs the operations are called with.                              *)
(***************************************************************************)
\* calls of the issuing side: every casing, the empty string, an unknown name
Gids == {"bob", "eve", ""}

AuthLists == {<<>>, <<"H", "I">>, <<"B">>, <<"b">>, <<"a", "A">>}

KeyLists == {<<>>, <<"H", "I">>, <<"H", "">>, <<"B">>, <<"b">>, <<"A">>}

AddNames == {"B", "b", "H", "A", ""}

\* calls around a ciphertext: two users, the authorities of H, I and of B
Users == {"bob", "eve"}

Authorities == {<<"H", "I">>, <<"B">>}

Requests == {<<"H", "I">>, <<"B">>}

Grants == {"B", "H"}

Policies ==
    {Att("H"), Att("b"),
     And(Att("H"), Att("B")), Or(Att("H"), Att("B")),
     And(Att("B"), Att("B")), Or(And(Att("H"), Att("B")), Att("H")),
     Malformed}

Payloads == {<<>>, <<1, 255>>}

\* the lists without repetition over a set of indices
RECURSIVE Arrangements(_)
Arrangements(S) ==
    {<<>>} \cup UNION {{<<i>> \o t : t \in Arrangements(S \ {i})} : i \in S}

(***************************************************************************)
(* State: the values the caller holds.  gk, sk and ct are options; auths   *)
(* is the list of the authorities' key pairs; result is the outcome of the *)
(* last call (status "panic": the process was aborted).                    *)
(* prov and enc are history: prov[i] tells under which gid and from which  *)
(* master entry component i of sk was issued; enc keeps what encrypt       *)
(* sealed (session key, payload, bytes) and the public keys it was given.  *)
(***************************************************************************)
Outcome(op, status, out, arg) == [op |-> op, status |-> status, out |-> out, arg |-> arg]

Aborted == result.status = "panic"

Init ==
    /\ gk = None
    /\ auths = <<>>
    /\ sk = None
    /\ prov = <<>>
    /\ ct = None
    /\ enc = None
    /\ result = Outcome("init", "ok", <<>>, <<>>)
    /\ rng \in Seeds

Setup ==
    /\ ~Aborted
    /\ gk = None
    /\ gk' = Some(setup(rng).gk)
    /\ rng' = setup(rng).rng
    /\ result' = Outcome("setup", "ok", <<>>, <<>>)
    /\ UNCHANGED <<auths, sk, prov, ct, enc>>

Authgen(attributes) ==
    /\ ~Aborted
    /\ is_some(gk)
    /\ Len(auths) < MaxAuth
    /\ LET res == authgen(unwrap(gk), attributes, rng)
       IN  IF is_some(res)
           THEN /\ auths' = Append(auths, [pk |-> unwrap(res).pk, msk |-> unwrap(res).msk])
                /\ rng' = unwrap(res).rng
                /\ result' = Outcome("authgen", "ok", <<>>, attributes)
           ELSE /\ result' = Outcome("authgen", "none", <<>>, attributes)
                /\ UNCHANGED <<auths, rng>>
    /\ UNCHANGED <<gk, sk, prov, ct, enc>>

\* the index of the master entry add_attribute reads
EntryOf(msk, attribute) == CHOOSE i \in 1 .. Len(msk) :
    /\ msk[i][1] = attribute
    /\ \A j \in 1 .. Len(msk) : msk[j][1] = attribute => i <= j

\* the history entries of the components a list of requests adds
RECURSIVE Issued(_, _, _)
Issued(a, gid, attributes) ==
    IF attributes = <<>> THEN <<>>
    ELSE IF is_empty(Head(attributes)) \/ is_empty(gid)
         THEN Issued(a, gid, Tail(attributes))
         ELSE <<[gid |-> gid, auth |-> a,
                 ent |-> EntryOf(auths[a].msk, Head(attributes))]>>
              \o Issued(a, gid, Tail(attributes))

Keygen(a, name, attributes) ==
    /\ ~Aborted
    /\ is_some(gk)
    /\ sk = None
    /\ a \in 1 .. Len(auths)
    /\ Len(attributes) <= MaxKeyLen
    /\ LET res == keygen(unwrap(gk), auths[a].msk, name, attributes)
           arg == [auth |-> a, name |-> name, attributes |-> attributes]
       IN  /\ result' = Outcome("keygen", res.status, <<>>, arg)
           /\ IF res.status = "ok"
              THEN /\ sk' = Some(res.sk)
                   /\ prov' = Issued(a, name, attributes)
              ELSE UNCHANGED <<sk, prov>>
    /\ UNCHANGED <<gk, auths, ct, enc, rng>>

AddAttribute(a, attribute) ==
    /\ ~Aborted
    /\ is_some(gk)
    /\ is_some(sk)
    /\ a \in 1 .. Len(auths)
    /\ Len(unwrap(sk).attr) < MaxKeyLen
    /\ LET res == add_attribute(unwrap(gk), auths[a].msk, attribute, unwrap(sk))
           arg == [auth |-> a, attribute |-> attribute]
       IN  /\ result' = Outcome("add_attribute", res.status, <<>>, arg)
           /\ IF res.status = "ok"
              THEN /\ sk' = Some(res.sk)
                   /\ prov' = prov \o Issued(a, unwrap(sk).gid, <<attribute>>)
              ELSE UNCHANGED <<sk, prov>>
    /\ UNCHANGED <<gk, auths, ct, enc, rng>>

\* the caller writes the public field _gid of its key
SetGid(name) ==
    /\ ~Aborted
    /\ is_some(sk)
    /\ name # unwrap(sk).gid
    /\ sk' = Some([unwrap(sk) EXCEPT !.gid = name])
    /\ result' = Outcome("set_gid", "ok", <<>>, name)
    /\ UNCHANGED <<gk, auths, prov, ct, enc, rng>>

Encrypt(order, policy, plaintext) ==
    /\ ~Aborted
    /\ is_some(gk)
    /\ ct = None
    /\ order \in Arrangements(1 .. Len(auths))
    /\ LET pks == [i \in 1 .. Len(order) |-> auths[order[i]].pk]
           res == encrypt(unwrap(gk), pks, policy, plaintext, rng)
           arg == [order |-> order, policy |-> policy, plaintext |-> plaintext]
       IN  /\ result' = Outcome("encrypt", res.status, <<>>, arg)
           /\ IF res.status = "ok"
              THEN /\ ct' = Some(res.ct)
                   /\ enc' = Some([order |-> order, msg |-> res.msg,
                                   plaintext |-> plaintext, bytes |-> res.ct.ct])
                   /\ rng' = res.rng
              ELSE UNCHANGED <<ct, enc, rng>>
    /\ UNCHANGED <<gk, auths, sk, prov>>

\* one bit of a byte flipped
FlipBit(b) == IF b % 2 = 0 THEN b + 1 ELSE b - 1

\* somebody flips a bit of the symmetric bytes of the ciphertext: of byte i
\* of the body, or (i = 0) of the tag
Tamper(i) ==
    /\ ~Aborted
    /\ is_some(ct)
    /\ unwrap(ct).ct = unwrap(enc).bytes
    /\ i \in 0 .. Len(unwrap(ct).ct.body)
    /\ LET bytes == unwrap(ct).ct
       IN  ct' = Some([unwrap(ct) EXCEPT !.ct =
                 IF i = 0
                 THEN [bytes EXCEPT !.tag[3] = 1]
                 ELSE [bytes EXCEPT !.body[i] = FlipBit(bytes.body[i])]])
    /\ result' = Outcome("tamper", "ok", <<>>, i)
    /\ UNCHANGED <<gk, auths, sk, prov, enc, rng>>

Decrypt ==
    /\ ~Aborted
    /\ is_some(gk)
    /\ is_some(sk)
    /\ is_some(ct)
    /\ LET res == decrypt(unwrap(gk), unwrap(sk), unwrap(ct))
       IN  result' = Outcome("decrypt", res.status, res.out, <<>>)
    /\ UNCHANGED <<gk, auths, sk, prov, ct, enc, rng>>

Next ==
    \/ Setup
    \/ \E attributes \in Authorities : Authgen(attributes)
    \/ \E a \in 1 .. MaxAuth, name \in Users, attributes \in Requests :
          Keygen(a, name, attributes)
    \/ \E a \in 1 .. MaxAuth, attribute \in Grants : AddAttribute(a, attribute)
    \/ \E name \in Users : SetGid(name)
    \/ \E order \in Arrangements(1 .. MaxAuth), policy \in Policies,
          plaintext \in Payloads : Encrypt(order, policy, plaintext)
    \/ \E i \in 0 .. 2 : Tamper(i)
    \/ Decrypt

Spec == Init /\ [][Next]_vars

\* the issuing side alone
NextIssue ==
    \/ Setup
    \/ \E attributes \in AuthLists : Authgen(attributes)
    \/ \E a \in 1 .. MaxAuth, name \in Gids, attributes \in KeyLists :
          Keygen(a, name, attributes)
    \/ \E a \in 1 .. MaxAuth, attribute \in AddNames : AddAttribute(a, attribute)
    \/ \E name \in Gids : SetGid(name)

SpecIssue == Init /\ [][NextIssue]_vars

(***************************************************************************)
(* Vocabulary of the properties.                                           *)
(***************************************************************************)
Gk == unwrap(gk)

Key == unwrap(sk)

Ct == unwrap(ct)

Enc == unwrap(enc)

Names(v) == {v[i][1] : i \in 1 .. Len(v)}

\* the reference evaluation of a policy over a set of names: AND needs all
\* children, OR at least one, names compared without regard to case
RECURSIVE Satisfies(_, _)
Satisfies(S, p) ==
    CASE p.t = "ATT" -> \E n \in S : to_uppercase(n) = to_uppercase(p.n)
      [] p.t = "AND" -> Satisfies(S, p.l) /\ Satisfies(S, p.r)
      [] p.t = "OR" -> Satisfies(S, p.l) \/ Satisfies(S, p.r)
      [] OTHER -> FALSE

\* decrypt has just returned for the key and the ciphertext of the state
Decrypted == result.op = "decrypt"

Satisfied == Satisfies(Names(Key.attr), Ct.policy)

Tampered == Ct.ct # Enc.bytes

\* the authorities govern pairwise disjoint attribute sets
DisjointAuthorities ==
    \A i, j \in 1 .. Len(auths) :
        i # j => Names(auths[i].msk) \cap Names(auths[j].msk) = {}

\* every component of the key was issued under the gid the key carries
OneGid == \A i \in 1 .. Len(prov) : prov[i].gid = Key.gid

\* no attribute is named by two leaves of the policy
DistinctLeaves(p) ==
    \A i, j \in 1 .. Len(Leaves(p)) :
        i # j => to_uppercase(Leaves(p)[i]) # to_uppercase(Leaves(p)[j])

(***************************************************************************)
(* C1.  Round trip.                                                        *)
(***************************************************************************)
\* C1 as stated: for a key whose components were all issued under its gid
\* by authorities over disjoint attribute sets, and whose names satisfy the
\* policy, decrypt of the untouched ciphertext returns the payload that was
\* encrypted.
C1_RoundTrip ==
    (Decrypted /\ ~Tampered /\ DisjointAuthorities /\ OneGid /\ Satisfied)
        => (result.status = "ok" /\ result.out = Enc.plaintext)

\* C1 as amended: the same round trip for the policies that name no
\* attribute twice.
C1_RoundTripDistinctLeaves ==
    (Decrypted /\ ~Tampered /\ DisjointAuthorities /\ OneGid /\ Satisfied
        /\ DistinctLeaves(Ct.policy))
        => (result.status = "ok" /\ result.out = Enc.plaintext)

\* bob, with H and I from one authority and B added from another, opened
\* a ciphertext for AND(H, B) made with both public keys
C1_Witness ==
    /\ Decrypted /\ ~Tampered /\ DisjointAuthorities /\ OneGid
    /\ Ct.policy = And(Att("H"), Att("B"))
    /\ Key.gid = "bob"
    /\ str_attr(Key) = <<"H", "I", "B">>
    /\ Len(Enc.order) = 2
    /\ prov[1].auth # prov[3].auth
    /\ result.status = "ok"
    /\ result.out = <<1, 255>>

(***************************************************************************)
(* C2.  Negative satisfaction: when the names of the key do not satisfy    *)
(* the policy under the reference evaluation, decrypt returns its failure  *)
(* value (None) and no plaintext.                                          *)
(***************************************************************************)
C2_NegativeSatisfaction ==
    (Decrypted /\ ~Satisfied) => (result.status = "none" /\ result.out = <<>>)

\* a key holding H and I but not B was refused for AND(H, B)
C2_Witness ==
    /\ Decrypted
    /\ Ct.policy = And(Att("H"), Att("B"))
    /\ Names(Key.attr) = {"H", "I"}
    /\ result.status = "none"

(***************************************************************************)
(* C3.  Case-insensitivity: an attribute the master key holds is issued    *)
(* by keygen and add_attribute whatever the casing of the request.         *)
(***************************************************************************)
C3_CaseInsensitive ==
    /\ (result.op = "add_attribute"
          /\ ~is_empty(result.arg.attribute)
          /\ ~is_empty(Key.gid)
          /\ to_uppercase(result.arg.attribute) \in Names(auths[result.arg.auth].msk))
        => (result.status = "ok"
              /\ Key.attr[Len(Key.attr)][1] = to_uppercase(result.arg.attribute))
    /\ (result.op = "keygen"
          /\ ~is_empty(result.arg.name)
          /\ result.arg.attributes # <<>>
          /\ \A n \in Range(result.arg.attributes) :
                to_uppercase(n) \in Names(auths[result.arg.auth].msk))
        => result.status = "ok"

(***************************************************************************)
(* C4.  Tamper detection with distinguishable failures: for a satisfying   *)
(* key and altered symmetric bytes decrypt fails, and what it returns      *)
(* differs from what it returns to a key that does not satisfy the policy  *)
(* (here: the same key without any component).                             *)
(***************************************************************************)
C4_TamperDistinguishable ==
    (Decrypted /\ Satisfied /\ Tampered)
        => /\ result.status = "none"
           /\ [status |-> result.status, out |-> result.out]
                 # decrypt(Gk, [gid |-> Key.gid, attr |-> <<>>], Ct)

(***************************************************************************)
(* C5.  authgen returns None and creates nothing exactly when the list is  *)
(* empty; else the new public and master keys hold one entry per input     *)
(* attribute, in input order, with the same upper-cased name at the same   *)
(* position, the public entry being (e(g1,g2)^alpha, g2^y) of the master   *)
(* entry's scalars.                                                        *)
(***************************************************************************)
C5_Authgen ==
    [][result'.op = "authgen" =>
        LET attributes == result'.arg
        IN  IF attributes = <<>>
            THEN result'.status = "none" /\ auths' = auths
            ELSE /\ result'.status = "ok"
                 /\ Len(auths') = Len(auths) + 1
                 /\ SubSeq(auths', 1, Len(auths)) = auths
                 /\ LET new == auths'[Len(auths')]
                    IN  /\ Len(new.pk) = Len(attributes)
                        /\ Len(new.msk) = Len(attributes)
                        /\ \A i \in 1 .. Len(attributes) :
                              /\ new.msk[i][1] = to_uppercase(attributes[i])
                              /\ new.pk[i][1] = new.msk[i][1]
                              /\ new.pk[i][2] =
                                    GtPow(pairing(Gk.g1, Gk.g2), new.msk[i][2])
                              /\ new.pk[i][3] = GMul(Gk.g2, new.msk[i][3])]_vars

\* authgen was given a lower-case name and returned two entries whose
\* scalars differ
C5_Witness ==
    /\ result.op = "authgen"
    /\ result.status = "ok"
    /\ result.arg = <<"a", "A">>
    /\ auths[Len(auths)].msk[1][2] # auths[Len(auths)].msk[1][3]

(***************************************************************************)
(* C6.  keygen returns None when the gid or the list is empty; else it     *)
(* returns a key with the given gid and one component per requested        *)
(* attribute, in request order, each the one add_attribute computes from   *)
(* the master key.                                                         *)
(***************************************************************************)
C6_Keygen ==
    result.op = "keygen" =>
        LET name == result.arg.name
            attributes == result.arg.attributes
            msk == auths[result.arg.auth].msk
        IN  IF is_empty(name) \/ attributes = <<>>
            THEN result.status = "none"
            ELSE /\ result.status = "ok"
                 /\ Key.gid = name
                 /\ Len(Key.attr) = Len(attributes)
                 /\ \A i \in 1 .. Len(attributes) :
                       <<Key.attr[i]>> =
                          add_attribute(Gk, msk, attributes[i],
                                        [gid |-> name, attr |-> <<>>]).sk.attr

(***************************************************************************)
(* C7.  A request for a non-empty attribute the master key does not hold   *)
(* fails without aborting the process and leaves the key as it was.        *)
(***************************************************************************)
C7_AttributeNotFound ==
    [][(/\ result'.op = "add_attribute"
        /\ ~is_empty(result'.arg.attribute)
        /\ ~is_empty(Key.gid)
        /\ to_uppercase(result'.arg.attribute)
              \notin Names(auths[result'.arg.auth].msk))
        => (result'.status # "panic" /\ result'.status # "ok" /\ sk' = sk)]_vars

(***************************************************************************)
(* C8.  encrypt never aborts: for a leaf no supplied public key covers,    *)
(* or a malformed policy, it returns a failure and no ciphertext.          *)
(***************************************************************************)
C8_EncryptFailure ==
    (result.op = "encrypt"
        /\ \/ ~WellFormed(result.arg.policy)
           \/ \E n \in Range(Leaves(result.arg.policy)) :
                 \A i \in Range(result.arg.order) :
                    to_uppercase(n) \notin Names(auths[i].pk))
        => (result.status = "none" /\ ct = None)

(***************************************************************************)
(* C9.  Binding of the components to one gid and one master entry.         *)
(***************************************************************************)
\* the rows decrypt selects for reconstruction
Selected == unwrap(calc_pruned_str(str_attr(Key), Ct.policy))[2]

\* the index of the first element of that name
IndexOf(v, name) == CHOOSE i \in 1 .. Len(v) :
    /\ v[i][1] = name
    /\ \A j \in 1 .. Len(v) : v[j][1] = name => i <= j

\* the authority whose public entry encrypt used for a name
UsedAuth(name) ==
    LET hit == {k \in 1 .. Len(Enc.order) : name \in Names(auths[Enc.order[k]].pk)}
    IN  Enc.order[CHOOSE k \in hit : \A j \in hit : k <= j]

\* the component of the key's own gid from the master entry that matches
\* the public entry encrypt used
RightComponent(name) ==
    add_attribute(Gk, auths[UsedAuth(name)].msk, name,
                  [gid |-> Key.gid, attr |-> <<>>]).sk.attr[1][2]

\* the component the key presents for a selected row was issued under
\* another gid (whose hash differs) or from another master entry
Foreign(name) ==
    LET p == prov[IndexOf(Key.attr, name)]
    IN  \/ /\ p.gid # Key.gid
           /\ blake2b_hash_g1(Gk.g1, p.gid) # blake2b_hash_g1(Gk.g1, Key.gid)
        \/ <<p.auth, p.ent>> # <<UsedAuth(name), IndexOf(auths[UsedAuth(name)].msk, name)>>

\* the key with every selected component replaced by the right one
RightKey ==
    [gid |-> Key.gid,
     attr |-> [i \in 1 .. Len(Key.attr) |->
                 IF Key.attr[i][1] \in Range(Selected)
                 THEN <<Key.attr[i][1], RightComponent(Key.attr[i][1])>>
                 ELSE Key.attr[i]]]

\* the product over the selected rows of e(K' / K, C2): presented component
\* K', right component K, second element C2 of the row
RECURSIVE Mismatch(_)
Mismatch(list) ==
    IF list = <<>> THEN GtOne
    ELSE GtMul(pairing((Key.attr[IndexOf(Key.attr, Head(list))][2]
                            - RightComponent(Head(list))) % Order,
                       Ct.c[IndexOf(Ct.c, Head(list))][3]),
               Mismatch(Tail(list)))

C10_AppendOnly ==
    [][result'.op = "add_attribute" =>
        LET attribute == result'.arg.attribute
            old == unwrap(sk)
            new == unwrap(sk')
        IN  /\ is_some(sk')
            /\ new.gid = old.gid
            /\ Len(new.attr) >= Len(old.attr)
            /\ SubSeq(new.attr, 1, Len(old.attr)) = old.attr
            /\ (is_empty(attribute) \/ is_empty(old.gid)) => new.attr = old.attr
            /\ IF result'.status = "ok"
               THEN /\ Len(new.attr) = Len(old.attr) + 1
                    /\ new.attr[Len(new.attr)][1] = to_uppercase(attribute)
               ELSE new.attr = old.attr
            /\ (~is_empty(attribute) /\ ~is_empty(old.gid)
                  /\ attribute \in Names(auths[result'.arg.auth].msk))
                  => result'.status = "ok"]_vars

\* an attribute the key already held was issued again
C10_Witness ==
    /\ result.op = "add_attribute"
    /\ result.status = "ok"
    /\ Len(Key.attr) >= 2
    /\ \E i \in 1 .. (Len(Key.attr) - 1) : Key.attr[i][1] = Key.attr[Len(Key.attr)][1]

====
